---- MODULE Spec2Model ----
(***************************************************************************)
(* A model of pepperbox/models.py: the Index Store _db, the construction   *)
(* of a PEP from one of its entries, and the two lazy accessors            *)
(* PEP.source and PEP.source_url over PEP._fetch_source.                   *)
(*                                                                         *)
(* Text.  A Python str that the code takes apart (authors, topic, the      *)
(* content URL, a document body) is a sequence of atoms: "," and " " are   *)
(* atoms of their own, every other atom is a run of characters holding     *)
(* neither.  "" is the empty sequence <<>>.  A str the code only looks up  *)
(* or passes through (status, type, title, ...) is a TLA+ string, and      *)
(* Python's None is the value None.                                        *)
(***************************************************************************)
EXTENDS Integers, Sequences, FiniteSets, TLC

VARIABLES
    db,         \* _db: identifier -> raw entry (PEPData), fixed at import
    tz,         \* the host's UTC offset in minutes (what astimezone reads)
    locked,     \* whether functools.cached_property takes its lock
                \* (Python 3.8 to 3.11 do, 3.12 and later do not)
    rec,        \* the PEP instance's __dict__, or NoRecord
    arg,        \* <<number>> of the latest PEP(number), <<>> before any
    exc,        \* what the latest PEP(number) raised, or "none"
    built,      \* the metadata of rec as __init__ left it (history)
    lock,       \* cached_property.lock of each lazy property: 0 or its holder
    pc,         \* each caller's position
    name,       \* the accessor each caller is in
    ext,        \* _fetch_source's loop index into Exts
    url,        \* _fetch_source's local url
    resp,       \* _fetch_source's local resp (the content of a 200 response)
    val,        \* cached_property's local val
    ret,        \* the outcome of each caller's latest completed lazy access
    meta,       \* what each caller's latest metadata read returned
    reqs,       \* the requests of each caller's current or latest access
    pre,        \* the lazy state as the current or latest access found it
    after_fail, \* the access before this one raised the content error
    ncalls,     \* accesses each caller has begun
    first_ret,  \* what each lazy accessor returned the first time it returned
    first_fetch,\* what the first completed _fetch_source stored
    tag         \* who wrote _source and _source_url (caller, access number)

ctor_vars == <<db, tz, locked, rec, arg, exc, built>>
call_vars == <<lock, pc, name, ext, url, resp, val, ret, meta, reqs, pre,
               after_fail, ncalls, first_ret, first_fetch, tag>>
vars == <<db, tz, locked, rec, arg, exc, built, lock, pc, name, ext, url,
          resp, val, ret, meta, reqs, pre, after_fail, ncalls, first_ret,
          first_fetch, tag>>

None == "None"
\* no instance: a __dict__ without any attribute
NoRecord == <<>>

(***************************************************************************)
(* str.split and the enumerations                                          *)
(***************************************************************************)
CommaSpace == <<",", " ">>

\* the first index at which sep occurs in s, 0 when it does not
find(s, sep) ==
    LET hits == {i \in 1..(Len(s) - Len(sep) + 1) :
                    SubSeq(s, i, i + Len(sep) - 1) = sep}
    IN IF hits = {} THEN 0
       ELSE CHOOSE i \in hits : \A j \in hits : i <= j

RECURSIVE split(_, _)
\* s.split(sep): the pieces between the occurrences of sep, left to right;
\* a string without sep (also "") is its own single piece
split(s, sep) ==
    LET i == find(s, sep)
    IN IF i = 0 THEN <<s>>
       ELSE <<SubSeq(s, 1, i - 1)>>
            \o split(SubSeq(s, i + Len(sep), Len(s)), sep)

\* x or []: x unless x is an empty list
OrEmptyList(x) == IF x = <<>> THEN <<>> ELSE x

\* frozenset(list)
frozenset(l) == {l[i] : i \in DOMAIN l}

PEPStatusMembers ==
    [ACCEPTED |-> "Accepted", ACTIVE |-> "Active", DEFERRED |-> "Deferred",
     DRAFT |-> "Draft", FINAL |-> "Final", PROVISIONAL |-> "Provisional",
     REJECTED |-> "Rejected", REPLACED |-> "Replaced",
     SUPERSEDED |-> "Superseded", WITHDRAWN |-> "Withdrawn"]

PEPTopicMembers ==
    [GOVERNANCE |-> <<"governance">>, PACKAGING |-> <<"packaging">>,
     RELEASE |-> <<"release">>, TYPING |-> <<"typing">>]

PEPTypeMembers ==
    [INFORMATIONAL |-> "Informational", PROCESS |-> "Process",
     STANDARD_TRACK |-> "Standards Track"]

\* Enum(value): the member with that value, or ValueError
EnumCall(members, v) ==
    IF \E m \in DOMAIN members : members[m] = v
    THEN [ok |-> TRUE, member |-> CHOOSE m \in DOMAIN members : members[m] = v]
    ELSE [ok |-> FALSE, member |-> "ValueError"]

\* a lookup that answers a value outside the enumeration instead of raising
PEPStatusLenient(v) ==
    IF EnumCall(PEPStatusMembers, v).ok THEN EnumCall(PEPStatusMembers, v)
    ELSE [ok |-> TRUE, member |-> "UNKNOWN"]

PEPStatus(v) == EnumCall(PEPStatusMembers, v)

PEPTopic(v) == EnumCall(PEPTopicMembers, v)

PEPType(v) == EnumCall(PEPTypeMembers, v)

\* list(map(f, l)) for f = PEPTopic: the members, or the first ValueError
MapPEPTopic(l) ==
    IF \A i \in DOMAIN l : PEPTopic(l[i]).ok
    THEN [ok |-> TRUE, list |-> [i \in DOMAIN l |-> PEPTopic(l[i]).member]]
    ELSE [ok |-> FALSE, list |-> <<>>]

(***************************************************************************)
(* Dates.  A raw creation date is <<day, "-", month abbreviation, "-",     *)
(* year>>, the digit runs written as the numbers they spell.               *)
(***************************************************************************)
MonthAbbr ==
    [Jan |-> 1, Feb |-> 2, Mar |-> 3, Apr |-> 4, May |-> 5, Jun |-> 6,
     Jul |-> 7, Aug |-> 8, Sep |-> 9, Oct |-> 10, Nov |-> 11, Dec |-> 12]

IsLeap(y) == (y % 4 = 0 /\ y % 100 # 0) \/ y % 400 = 0

DaysIn(y, m) ==
    IF m = 2 THEN (IF IsLeap(y) THEN 29 ELSE 28)
    ELSE IF m \in {4, 6, 9, 11} THEN 30 ELSE 31

\* datetime.strptime(s, "%d-%b-%Y"): midnight of that day, naive
strptime(s) ==
    IF /\ Len(s) = 5
       /\ s[2] = "-" /\ s[4] = "-"
       /\ s[3] \in DOMAIN MonthAbbr
       /\ s[1] \in 1..DaysIn(s[5], MonthAbbr[s[3]])
    THEN [ok |-> TRUE,
          dt |-> [year |-> s[5], month |-> MonthAbbr[s[3]], day |-> s[1],
                  minute |-> 0]]
    ELSE [ok |-> FALSE, dt |-> None]

PrevDay(d) ==
    IF d.day > 1 THEN [d EXCEPT !.day = d.day - 1]
    ELSE IF d.month > 1
         THEN [d EXCEPT !.month = d.month - 1,
                        !.day = DaysIn(d.year, d.month - 1)]
         ELSE [d EXCEPT !.year = d.year - 1, !.month = 12, !.day = 31]

NextDay(d) ==
    IF d.day < DaysIn(d.year, d.month) THEN [d EXCEPT !.day = d.day + 1]
    ELSE IF d.month < 12 THEN [d EXCEPT !.month = d.month + 1, !.day = 1]
         ELSE [d EXCEPT !.year = d.year + 1, !.month = 1, !.day = 1]

MinutesPerDay == 24 * 60

\* naive.astimezone(timezone.utc): dt is read as local time, offset minutes
\* ahead of UTC, and the same instant is written in UTC
astimezone_utc(dt, offset) ==
    LET m == dt.minute - offset
        shift == m \div MinutesPerDay
        day == IF shift < 0 THEN PrevDay(dt)
               ELSE IF shift > 0 THEN NextDay(dt) ELSE dt
    IN [day EXCEPT !.minute = m % MinutesPerDay]

\* datetime.date()
date(dt) == [year |-> dt.year, month |-> dt.month, day |-> dt.day]

(***************************************************************************)
(* PEP.__init__                                                            *)
(***************************************************************************)
MetaKeys ==
    {"_number", "_title", "_authors", "_discussions_to", "_status", "_type",
     "_topics", "_created", "_python_version", "_post_history",
     "_resolution", "_requires", "_replaces", "_superseded_by", "_url"}

\* PEP(number) over the store: what it raises, and self.__dict__ on success
PEP_new(store, number, offset) ==
    IF number \notin DOMAIN store THEN [exc |-> "KeyError", self |-> NoRecord]
    ELSE
    LET data == store[number]
        status == PEPStatus(data.status)
        type == PEPType(data.type)
        topics == MapPEPTopic(OrEmptyList(split(data.topic, CommaSpace)))
        parsed == strptime(data.created)
    IN IF ~status.ok \/ ~type.ok \/ ~topics.ok \/ ~parsed.ok
       THEN [exc |-> "ValueError", self |-> NoRecord]
       ELSE [exc |-> "none",
             self |->
                ("_number" :> number) @@
                ("_title" :> data.title) @@
                ("_authors" :> frozenset(split(data.authors, CommaSpace))) @@
                ("_discussions_to" :> data.discussions_to) @@
                ("_status" :> status.member) @@
                ("_type" :> type.member) @@
                ("_topics" :> topics.list) @@
                ("_created" :> date(astimezone_utc(parsed.dt, offset))) @@
                ("_python_version" :> data.python_version) @@
                ("_post_history" :> data.post_history) @@
                ("_resolution" :> data.resolution) @@
                ("_requires" :> data.requires) @@
                ("_replaces" :> data.replaces) @@
                ("_superseded_by" :> data.superseded_by) @@
                ("_url" :> data.url) @@
                ("_source" :> <<>>) @@
                ("_source_url" :> <<>>)]

Meta(self) == [k \in MetaKeys |-> self[k]]

\* p = PEP(number): the caller gets the instance only when nothing is raised
PEP_init(number) ==
    /\ rec = NoRecord
    /\ LET new == PEP_new(db, number, tz)
       IN /\ arg' = <<number>>
          /\ exc' = new.exc
          /\ rec' = new.self
          /\ built' = IF new.exc = "none" THEN Meta(new.self) ELSE built
    /\ UNCHANGED <<db, tz, locked>>
    /\ UNCHANGED call_vars

(***************************************************************************)
(* The lazy accessors.  Callers share one PEP; each is at one place of     *)
(* cached_property.__get__, of the accessor's body or of _fetch_source.    *)
(* A step is one read or write of shared state (the instance's __dict__,   *)
(* the property's lock) or one HTTP request.                               *)
(***************************************************************************)
Callers == {1, 2}

LazyNames == {"source", "source_url"}

Other(n) == IF n = "source" THEN "source_url" ELSE "source"

\* the attribute an accessor n tests and returns: self._source, self._source_url
Attr(n) == "_" \o n

ContentRoot == "https://raw.githubusercontent.com/python/peps/main/peps/pep-"

\* format(n, "04"): the decimal digits, zero-padded on the left to four
Pad4(n) ==
    IF n < 10 THEN "000" \o ToString(n)
    ELSE IF n < 100 THEN "00" \o ToString(n)
    ELSE IF n < 1000 THEN "0" \o ToString(n)
    ELSE ToString(n)

\* BASE_CONTENT_URL.format(number, e)
BASE_CONTENT_URL(number, e) == <<ContentRoot, Pad4(number), ".", e>>

ExtsSwapped == <<"txt", "rst">>

\* the candidates of _fetch_source's loop, in its order
Exts == <<"rst", "txt">>

MaxContentLen == 1

ByteAtoms == {"a", "b", "\\xff"}

\* resp.content: a byte string; "\\xff" is a byte that is not UTF-8
Contents == UNION {[1..k -> ByteAtoms] : k \in 0..MaxContentLen}

StatusCodes == {200, 404}

\* what the transport may answer to one request
Responses ==
    {[status_code |-> 200, content |-> c] : c \in Contents}
    \cup {[status_code |-> s, content |-> <<>>] : s \in StatusCodes \ {200}}

\* bytes.decode(): the text, or UnicodeDecodeError
decode(c) ==
    IF \E i \in DOMAIN c : c[i] = "\\xff"
    THEN [ok |-> FALSE, text |-> <<>>]
    ELSE [ok |-> TRUE, text |-> c]

\* not x, for a str
Falsy(x) == x = <<>>

NoOutcome == [name |-> "none", kind |-> "none", value |-> <<>>]

NoLocals(t) ==
    /\ ext' = [ext EXCEPT ![t] = 0]
    /\ url' = [url EXCEPT ![t] = <<>>]
    /\ resp' = [resp EXCEPT ![t] = <<>>]
    /\ val' = [val EXCEPT ![t] = <<>>]

\* a caller evaluates p.source or p.source_url
Access(t, n, cap) ==
    /\ rec # NoRecord
    /\ pc[t] = "idle"
    /\ ncalls[t] < cap
    /\ pc' = [pc EXCEPT ![t] = "get"]
    /\ name' = [name EXCEPT ![t] = n]
    /\ ncalls' = [ncalls EXCEPT ![t] = @ + 1]
    /\ reqs' = [reqs EXCEPT ![t] = <<>>]
    /\ pre' = [pre EXCEPT ![t] =
                 [source |-> rec["_source"], source_url |-> rec["_source_url"],
                  cached |-> DOMAIN rec \cap LazyNames]]
    /\ after_fail' = [after_fail EXCEPT ![t] =
                        /\ ret[t].kind = "raise"
                        /\ ret[t].value = "PepperboxConnectionError"]
    /\ ret' = [ret EXCEPT ![t] = NoOutcome]
    /\ UNCHANGED ctor_vars
    /\ UNCHANGED <<lock, ext, url, resp, val, meta, first_ret, first_fetch,
                   tag>>

\* cached_property.__get__: val = cache.get(self.attrname, _NOT_FOUND)
Get(t) ==
    /\ pc[t] = "get"
    /\ IF name[t] \in DOMAIN rec
       THEN /\ val' = [val EXCEPT ![t] = rec[name[t]]]
            /\ pc' = [pc EXCEPT ![t] = "return"]
       ELSE /\ val' = val
            /\ pc' = [pc EXCEPT ![t] = IF locked THEN "acquire" ELSE "func"]
    /\ UNCHANGED ctor_vars
    /\ UNCHANGED <<lock, name, ext, url, resp, ret, meta, reqs, pre,
                   after_fail,
                   ncalls, first_ret, first_fetch, tag>>

\* with self.lock: (3.8 to 3.11) waits until the property's lock is free
Acquire(t) ==
    /\ pc[t] = "acquire"
    /\ lock[name[t]] = 0
    /\ lock' = [lock EXCEPT ![name[t]] = t]
    /\ pc' = [pc EXCEPT ![t] = "recheck"]
    /\ UNCHANGED ctor_vars
    /\ UNCHANGED <<name, ext, url, resp, val, ret, meta, reqs, pre,
                   after_fail,
                   ncalls, first_ret, first_fetch, tag>>

\* the second cache.get, under the lock
Recheck(t) ==
    /\ pc[t] = "recheck"
    /\ IF name[t] \in DOMAIN rec
       THEN /\ val' = [val EXCEPT ![t] = rec[name[t]]]
            /\ pc' = [pc EXCEPT ![t] = "release"]
       ELSE /\ val' = val
            /\ pc' = [pc EXCEPT ![t] = "func"]
    /\ UNCHANGED ctor_vars
    /\ UNCHANGED <<lock, name, ext, url, resp, ret, meta, reqs, pre,
                   after_fail,
                   ncalls, first_ret, first_fetch, tag>>

\* the accessor's body: if not self._source: / if not self._source_url:
Test(t) ==
    /\ pc[t] = "func"
    /\ IF Falsy(rec[Attr(name[t])])
       THEN /\ pc' = [pc EXCEPT ![t] = "request"]
            /\ ext' = [ext EXCEPT ![t] = 1]
       ELSE /\ pc' = [pc EXCEPT ![t] = "read"]
            /\ ext' = ext
    /\ UNCHANGED ctor_vars
    /\ UNCHANGED <<lock, name, url, resp, val, ret, meta, reqs, pre,
                   after_fail,
                   ncalls, first_ret, first_fetch, tag>>

\* a loop that takes whatever the last candidate answers
fetch_step_last_unchecked(i, status_code) ==
    IF status_code = 200 \/ i = Len(Exts) THEN "store" ELSE "next"

\* what _fetch_source does with the answer to candidate i: store it and
\* return, go on to the next candidate, or fall out of the loop and raise
fetch_step(i, status_code) ==
    IF status_code = 200 THEN "store"
    ELSE IF i < Len(Exts) THEN "next" ELSE "raise"

\* _fetch_source: url = ...; resp = httpx.get(url); the status test; the
\* next candidate, or the raise after the last
Request(t) ==
    /\ pc[t] = "request"
    /\ \E r \in Responses :
        LET u == BASE_CONTENT_URL(rec["_number"], Exts[ext[t]])
        IN /\ reqs' = [reqs EXCEPT ![t] =
                         Append(@, [ext |-> Exts[ext[t]], url |-> u,
                                    status_code |-> r.status_code])]
           /\ IF fetch_step(ext[t], r.status_code) = "store"
              THEN /\ url' = [url EXCEPT ![t] = u]
                   /\ resp' = [resp EXCEPT ![t] = r.content]
                   /\ pc' = [pc EXCEPT ![t] = "set_url"]
                   /\ UNCHANGED <<ext, val>>
              ELSE IF fetch_step(ext[t], r.status_code) = "next"
              THEN /\ ext' = [ext EXCEPT ![t] = @ + 1]
                   /\ UNCHANGED <<url, resp, pc, val>>
              ELSE /\ val' = [val EXCEPT ![t] = "PepperboxConnectionError"]
                   /\ pc' = [pc EXCEPT ![t] = "unwind"]
                   /\ UNCHANGED <<ext, url, resp>>
    /\ UNCHANGED ctor_vars
    /\ UNCHANGED <<lock, name, ret, meta, pre, after_fail, ncalls, first_ret,
                   first_fetch, tag>>

\* the assignment stores into a metadata attribute by mistake
store_url_as_url(self, u) == [self EXCEPT !["_url"] = u]

\* self._source_url = url
store_source_url(self, u) == [self EXCEPT !["_source_url"] = u]

SetSourceUrl(t) ==
    /\ pc[t] = "set_url"
    /\ rec' = store_source_url(rec, url[t])
    /\ tag' = [tag EXCEPT !["_source_url"] = <<t, ncalls[t]>>]
    /\ pc' = [pc EXCEPT ![t] = "set_source"]
    /\ UNCHANGED <<db, tz, locked, arg, exc, built>>
    /\ UNCHANGED <<lock, name, ext, url, resp, val, ret, meta, reqs, pre,
                   after_fail,
                   ncalls, first_ret, first_fetch>>

\* self._source = resp.content.decode(); return
SetSource(t) ==
    /\ pc[t] = "set_source"
    /\ LET d == decode(resp[t])
       IN IF d.ok
          THEN /\ rec' = [rec EXCEPT !["_source"] = d.text]
               /\ tag' = [tag EXCEPT !["_source"] = <<t, ncalls[t]>>]
               /\ first_fetch' =
                    IF first_fetch.done THEN first_fetch
                    ELSE [done |-> TRUE, source |-> d.text,
                          source_url |-> url[t]]
               /\ pc' = [pc EXCEPT ![t] = "read"]
               /\ val' = val
          ELSE /\ val' = [val EXCEPT ![t] = "UnicodeDecodeError"]
               /\ pc' = [pc EXCEPT ![t] = "unwind"]
               /\ UNCHANGED <<rec, tag, first_fetch>>
    /\ UNCHANGED <<db, tz, locked, arg, exc, built>>
    /\ UNCHANGED <<lock, name, ext, url, resp, ret, meta, reqs, pre,
                   after_fail,
                   ncalls, first_ret>>

\* return self._source / return self._source_url
Read(t) ==
    /\ pc[t] = "read"
    /\ val' = [val EXCEPT ![t] = rec[Attr(name[t])]]
    /\ pc' = [pc EXCEPT ![t] = "store"]
    /\ UNCHANGED ctor_vars
    /\ UNCHANGED <<lock, name, ext, url, resp, ret, meta, reqs, pre,
                   after_fail,
                   ncalls, first_ret, first_fetch, tag>>

\* a cached_property that forgets what the function returned
cache_nothing(self, n, v) == self

\* cache[self.attrname] = val
cache_store(self, n, v) == (n :> v) @@ self

Store(t) ==
    /\ pc[t] = "store"
    /\ rec' = cache_store(rec, name[t], val[t])
    /\ pc' = [pc EXCEPT ![t] = IF locked THEN "release" ELSE "return"]
    /\ UNCHANGED <<db, tz, locked, arg, exc, built>>
    /\ UNCHANGED <<lock, name, ext, url, resp, val, ret, meta, reqs, pre,
                   after_fail,
                   ncalls, first_ret, first_fetch, tag>>

\* the end of the with block
Release(t) ==
    /\ pc[t] = "release"
    /\ lock' = [lock EXCEPT ![name[t]] = 0]
    /\ pc' = [pc EXCEPT ![t] = "return"]
    /\ UNCHANGED ctor_vars
    /\ UNCHANGED <<name, ext, url, resp, val, ret, meta, reqs, pre,
                   after_fail,
                   ncalls, first_ret, first_fetch, tag>>

\* return val: the caller has the value
Return(t) ==
    /\ pc[t] = "return"
    /\ ret' = [ret EXCEPT ![t] =
                 [name |-> name[t], kind |-> "return", value |-> val[t]]]
    /\ first_ret' =
         IF first_ret[name[t]].done THEN first_ret
         ELSE [first_ret EXCEPT ![name[t]] = [done |-> TRUE, value |-> val[t]]]
    /\ pc' = [pc EXCEPT ![t] = "idle"]
    /\ NoLocals(t)
    /\ UNCHANGED ctor_vars
    /\ UNCHANGED <<lock, name, meta, reqs, pre, after_fail, ncalls,
                   first_fetch, tag>>

\* an exception leaves __get__ (its with block gives the lock back) and
\* reaches the caller
Unwind(t) ==
    /\ pc[t] = "unwind"
    /\ ret' = [ret EXCEPT ![t] =
                 [name |-> name[t], kind |-> "raise", value |-> val[t]]]
    /\ lock' = IF lock[name[t]] = t THEN [lock EXCEPT ![name[t]] = 0] ELSE lock
    /\ pc' = [pc EXCEPT ![t] = "idle"]
    /\ NoLocals(t)
    /\ UNCHANGED ctor_vars
    /\ UNCHANGED <<name, meta, reqs, pre, after_fail, ncalls, first_ret,
                   first_fetch, tag>>

MetaNames ==
    {"number", "title", "authors", "discussions_to", "status", "type",
     "topics", "created", "python_version", "post_history", "resolution",
     "requires", "replaces", "superseded_by", "url"}

\* a metadata property, or int(p) for "number": return self._<name>
GetMeta(t, k) ==
    /\ rec # NoRecord
    /\ pc[t] = "idle"
    /\ meta' = [meta EXCEPT ![t] = [name |-> k, value |-> <<rec[Attr(k)]>>]]
    /\ UNCHANGED ctor_vars
    /\ UNCHANGED <<lock, pc, name, ext, url, resp, val, ret, reqs, pre,
                   after_fail, ncalls, first_ret, first_fetch, tag>>

Step(t) ==
    \/ Get(t)
    \/ Acquire(t)
    \/ Recheck(t)
    \/ Test(t)
    \/ Request(t)
    \/ SetSourceUrl(t)
    \/ SetSource(t)
    \/ Read(t)
    \/ Store(t)
    \/ Release(t)
    \/ Return(t)
    \/ Unwind(t)

(***************************************************************************)
(* Index Stores and initial states                                         *)
(***************************************************************************)
Entry8 ==
    [number |-> 8, title |-> "Style Guide for Python Code",
     authors |-> <<"Barry", " ", "Warsaw", ",", " ", "Jeremy", " ", "Hylton">>,
     discussions_to |-> None, status |-> "Active", type |-> "Process",
     topic |-> <<>>, created |-> <<5, "-", "Jul", "-", 2000>>,
     python_version |-> None, post_history |-> None, resolution |-> None,
     requires |-> None, replaces |-> None, superseded_by |-> None,
     url |-> <<"https://peps.python.org/pep-0008/">>]

Entry484 ==
    [number |-> 484, title |-> "Type Hints",
     authors |-> <<"Guido", ",", " ", "Jukka", ",", " ", "Lukasz">>,
     discussions_to |-> "python-dev@python.org", status |-> "Final",
     type |-> "Standards Track", topic |-> <<"typing">>,
     created |-> <<29, "-", "Sep", "-", 2014>>, python_version |-> "3.5",
     post_history |-> "16-Jan-2015", resolution |-> None, requires |-> None,
     replaces |-> None, superseded_by |-> None,
     url |-> <<"https://peps.python.org/pep-0484/">>]

\* the identifiers a caller passes: two of the store, one of no store
Numbers == {8, 484, 9999}

NominalDb == (8 :> Entry8) @@ (484 :> Entry484)

InitCalls ==
    /\ lock = [n \in LazyNames |-> 0]
    /\ pc = [t \in Callers |-> "idle"]
    /\ name = [t \in Callers |-> "none"]
    /\ ext = [t \in Callers |-> 0]
    /\ url = [t \in Callers |-> <<>>]
    /\ resp = [t \in Callers |-> <<>>]
    /\ val = [t \in Callers |-> <<>>]
    /\ ret = [t \in Callers |-> NoOutcome]
    /\ meta = [t \in Callers |-> [name |-> "none", value |-> <<>>]]
    /\ reqs = [t \in Callers |-> <<>>]
    /\ pre = [t \in Callers |->
                [source |-> <<>>, source_url |-> <<>>, cached |-> {}]]
    /\ after_fail = [t \in Callers |-> FALSE]
    /\ ncalls = [t \in Callers |-> 0]
    /\ first_ret = [n \in LazyNames |-> [done |-> FALSE, value |-> <<>>]]
    /\ first_fetch = [done |-> FALSE, source |-> <<>>, source_url |-> <<>>]
    /\ tag = ("_source" :> <<0, 0>>) @@ ("_source_url" :> <<0, 0>>)

InitNoRecord ==
    /\ rec = NoRecord
    /\ arg = <<>>
    /\ exc = "none"
    /\ built = NoRecord

MaxCalls == 4

MaxSharedCalls == 1

\* one caller, the store as the index serves it
Init ==
    /\ db = NominalDb
    /\ tz = 0
    /\ locked \in BOOLEAN
    /\ InitNoRecord
    /\ InitCalls

Next ==
    \/ \E n \in Numbers : PEP_init(n)
    \/ \E n \in LazyNames : Access(1, n, MaxCalls)
    \/ Step(1)
    \/ \E k \in MetaNames : GetMeta(1, k)

Spec == Init /\ [][Next]_vars

\* two callers share the PEP
NextShared ==
    \/ \E n \in Numbers : PEP_init(n)
    \/ \E t \in Callers, n \in LazyNames : Access(t, n, MaxSharedCalls)
    \/ \E t \in Callers : Step(t)

SpecShared == Init /\ [][NextShared]_vars

\* construction alone
NextInit == \E n \in Numbers : PEP_init(n)

MaxTopicLen == 4

TopicAtoms == {"typing", "release", "bogus", ",", " "}

TopicStrings == UNION {[1..k -> TopicAtoms] : k \in 0..MaxTopicLen}

\* every raw topic string over the atoms, the other fields those of PEP 8
InitTopics ==
    /\ db \in {(8 :> [Entry8 EXCEPT !.topic = s]) : s \in TopicStrings}
    /\ tz = 0
    /\ locked = FALSE
    /\ InitNoRecord
    /\ InitCalls

SpecTopics == InitTopics /\ [][NextInit]_vars

Years == 2000..2001

CreatedStrings ==
    {<<d, "-", b, "-", y>> :
        d \in 1..31, b \in DOMAIN MonthAbbr, y \in Years}

\* UTC-12:00 to UTC+14:00 in hours, and the two half-hour neighbours of UTC
TzOffsets == {60 * k : k \in (0 - 12)..14} \cup {0 - 30, 30}

\* every creation date of the years, written or not on the calendar, on a
\* host of every offset; the other fields those of PEP 484
InitCreated ==
    /\ db \in {(484 :> [Entry484 EXCEPT !.created = c]) : c \in CreatedStrings}
    /\ tz \in TzOffsets
    /\ locked = FALSE
    /\ InitNoRecord
    /\ InitCalls

SpecCreated == InitCreated /\ [][NextInit]_vars

RawStatuses == {"Active", "Final", "active", "Bogus", ""}

RawTypes == {"Process", "Standards Track", "Standards-Track", "process"}

RawTopics ==
    {<<>>, <<"typing">>, <<"typing", ",", " ", "release">>, <<"bogus">>,
     <<"typing", ",", " ", "bogus">>, <<"typing", ",", "release">>}

RawCreated ==
    {<<5, "-", "Jul", "-", 2000>>, <<31, "-", "Feb", "-", 2000>>,
     <<5, "-", "July", "-", 2000>>}

\* entries whose status, type, topic and date are or are not well-formed
InitRaw ==
    /\ db \in {(8 :> [Entry8 EXCEPT !.status = s, !.type = ty, !.topic = tp,
                                   !.created = c]) @@ (484 :> Entry484) :
                 s \in RawStatuses, ty \in RawTypes, tp \in RawTopics,
                 c \in RawCreated}
    /\ tz = 0
    /\ locked = FALSE
    /\ InitNoRecord
    /\ InitCalls

SpecInit == InitRaw /\ [][NextInit]_vars

(***************************************************************************)
(* The claims                                                              *)
(***************************************************************************)
EndsWith(s, suffix) ==
    /\ Len(s) >= Len(suffix)
    /\ SubSeq(s, Len(s) - Len(suffix) + 1, Len(s)) = suffix

InAccess(t) == pc[t] # "idle"

Quiet == \A t \in Callers : pc[t] = "idle"

\* the places of an access after the accessor's body has its value
HasValue(t) == pc[t] \in {"store", "release", "return"}

\* C1: once either lazy accessor has returned, an access to the other one
\* issues no HTTP request, raises nothing, and returns what the first
\* completed fetch stored.
C1_SharedCache ==
    \A t \in Callers :
        (InAccess(t) /\ first_ret[Other(name[t])].done)
        => /\ reqs[t] = <<>>
           /\ pc[t] # "unwind"
           /\ pc[t] = "return" => val[t] = first_fetch[name[t]]

\* C2: between accesses the body and the source URL are both unset or both
\* set and written by the same fetch, and an attribute that is set never
\* changes.
C2_PairSetOnce ==
    [][/\ (rec' # NoRecord /\ Quiet')
          => /\ Falsy(rec'["_source"]) <=> Falsy(rec'["_source_url"])
             /\ tag'["_source"] = tag'["_source_url"]
       /\ rec # NoRecord
          => \A a \in {"_source", "_source_url"} :
                ~Falsy(rec[a]) => rec'[a] = rec[a]]_vars

\* C3: once source has returned, every later access to source issues no
\* HTTP request, raises nothing and returns the same text.
C3_SourceIdempotent ==
    \A t \in Callers :
        /\ (InAccess(t) /\ name[t] = "source" /\ first_ret["source"].done)
           => /\ reqs[t] = <<>>
              /\ pc[t] # "unwind"
              /\ pc[t] = "return" => val[t] = first_ret["source"].value
        /\ (ret[t].kind = "return" /\ ret[t].name = "source")
           => ret[t].value = first_ret["source"].value

C3_Witness ==
    /\ pc[1] = "return"
    /\ name[1] = "source"
    /\ first_ret["source"].done
    /\ val[1] = <<>>

BothFailed(t) ==
    /\ Len(reqs[t]) = 2
    /\ reqs[t][1].ext = "rst" /\ reqs[t][1].status_code # 200
    /\ reqs[t][2].ext = "txt" /\ reqs[t][2].status_code # 200

\* C4: an access whose rst and txt requests both answer non-200 raises
\* PepperboxConnectionError and leaves _source, _source_url and the cached
\* properties as it found them; and when an access raised that error and
\* left the pair unset, the caller's next access to either accessor gets
\* its value only after issuing requests of its own.
C4_FailureNotCached ==
    \A t \in Callers :
        /\ BothFailed(t)
           => /\ pc[t] \in {"unwind", "idle"}
              /\ pc[t] = "unwind" => val[t] = "PepperboxConnectionError"
              /\ pc[t] = "idle"
                 => /\ ret[t].kind = "raise"
                    /\ ret[t].value = "PepperboxConnectionError"
              /\ rec["_source"] = pre[t].source
              /\ rec["_source_url"] = pre[t].source_url
              /\ DOMAIN rec \cap LazyNames = pre[t].cached
        /\ (/\ after_fail[t]
            /\ Falsy(pre[t].source) /\ Falsy(pre[t].source_url)
            /\ HasValue(t) \/ (pc[t] = "idle" /\ ret[t].kind = "return"))
           => /\ reqs[t] # <<>>
              /\ reqs[t][Len(reqs[t])].status_code = 200

\* a retry after a failed access fetched, succeeded and returned
C4_Witness ==
    /\ after_fail[1]
    /\ Falsy(pre[1].source) /\ Falsy(pre[1].source_url)
    /\ pc[1] = "idle"
    /\ ret[1].kind = "return"
    /\ ret[1].name = "source_url"
    /\ Len(reqs[1]) = 2

\* C5: an access requests rst first, txt only after rst answered non-200,
\* and nothing else, each at the location of its extension; when a request
\* answered 200 it was the last one and _source_url is its location, so
\* rst failing and txt succeeding is the two requests rst, txt and a URL
\* ending in ".txt", and rst succeeding is the one request and a URL
\* ending in ".rst".
C5_FallbackOrder ==
    \A t \in Callers :
        LET r == reqs[t]
        IN /\ Len(r) <= 2
           /\ \A i \in DOMAIN r : EndsWith(r[i].url, <<".", r[i].ext>>)
           /\ Len(r) >= 1 => r[1].ext = "rst"
           /\ Len(r) = 2 => r[1].status_code # 200 /\ r[2].ext = "txt"
           /\ (r # <<>> /\ r[Len(r)].status_code = 200 /\ pc[t] # "set_url")
              => /\ rec["_source_url"] = r[Len(r)].url
                 /\ Len(r) = 1 => EndsWith(rec["_source_url"], <<".", "rst">>)
                 /\ Len(r) = 2 => EndsWith(rec["_source_url"], <<".", "txt">>)

C5_Witness ==
    /\ pc[1] = "idle"
    /\ ret[1].kind = "return"
    /\ ret[1].name = "source_url"
    /\ Len(reqs[1]) = 2
    /\ reqs[1][1].status_code = 404
    /\ reqs[1][2].status_code = 200
    /\ EndsWith(ret[1].value, <<".", "txt">>)

RangeOf(f) == {f[x] : x \in DOMAIN f}

\* the topic list the raw string stands for: none for "", else the members
\* of its pieces between ", ", in order
TopicsOf(raw) ==
    IF raw = <<>> THEN <<>>
    ELSE [i \in DOMAIN split(raw, CommaSpace) |->
            CHOOSE m \in DOMAIN PEPTopicMembers :
                PEPTopicMembers[m] = split(raw, CommaSpace)[i]]

\* C6: a PEP built from an entry has the topics of the entry's raw topic
\* string, in order, and an entry with the empty topic string builds a PEP
\* without topics.
C6_TopicsSplit ==
    arg = <<8>>
    => /\ db[8].topic = <<>> => exc = "none"
       /\ exc = "none" => rec["_topics"] = TopicsOf(db[8].topic)

\* C7: the creation date of a PEP is the day, month and year its entry
\* writes, whatever the host's UTC offset.
C7_CreatedAsWritten ==
    (arg = <<484>> /\ exc = "none")
    => rec["_created"] =
         [year |-> db[484].created[5],
          month |-> MonthAbbr[db[484].created[3]],
          day |-> db[484].created[1]]

BadEnumValue(data) ==
    \/ data.status \notin RangeOf(PEPStatusMembers)
    \/ data.type \notin RangeOf(PEPTypeMembers)
    \/ /\ data.topic # <<>>
       /\ \E piece \in RangeOf(split(data.topic, CommaSpace)) :
            piece \notin RangeOf(PEPTopicMembers)

CtorOutcome ==
    arg # <<>>
    => /\ arg[1] \notin DOMAIN db => exc = "KeyError"
       /\ (arg[1] \in DOMAIN db /\ BadEnumValue(db[arg[1]]))
          => exc = "ValueError"
       /\ exc # "none" => rec = NoRecord /\ built = NoRecord
       /\ exc = "none" => rec # NoRecord

\* C8: PEP(number) raises KeyError for a number the store lacks and
\* ValueError for an entry whose status, type or one of whose topics is no
\* member of its enumeration; whenever it raises there is no instance, and
\* the store is never changed.
C8_FailFast == [][db' = db /\ CtorOutcome']_vars

C8_Witness ==
    /\ arg = <<8>>
    /\ db[8].status \notin RangeOf(PEPStatusMembers)
    /\ db[8].topic = <<"typing">>
    /\ exc = "ValueError"
    /\ rec = NoRecord

MetaFixed ==
    rec # NoRecord
    => /\ Meta(rec) = built
       /\ \A t \in Callers :
            meta[t].name \in MetaNames
            => meta[t].value = <<built[Attr(meta[t].name)]>>

\* C9: whatever accesses were made, the instance's metadata attributes are
\* those __init__ set, every metadata accessor (and int) returns them, and
\* the store is unchanged.
C9_MetadataFixed == [][db' = db /\ MetaFixed']_vars

\* a metadata read after one access raised and a later one fetched the body
C9_Witness ==
    /\ rec # NoRecord
    /\ ~Falsy(rec["_source"])
    /\ "source" \in DOMAIN rec
    /\ ncalls[1] >= 2
    /\ meta[1].name = "url"

Unwritten == <<0, 0>>

\* C10: with two callers no access returns a source URL while no body has
\* been stored, and once all accesses are over the stored body and source
\* URL were written from one response.
C10_RaceTolerated ==
    [][/\ \A t \in Callers :
            (pc[t] = "read" /\ pc'[t] = "store" /\ name[t] = "source_url")
            => tag["_source"] # Unwritten
       /\ (Quiet' /\ tag'["_source"] # Unwritten
                  /\ tag'["_source_url"] # Unwritten)
          => tag'["_source"] = tag'["_source_url"]]_vars
====
